---- MODULE Spec2Model ----
(***************************************************************************)
(* A model of create_wordpress_site.py: the command router (main), the     *)
(* host-entry manager (modify_hosts_entry and the filter inside            *)
(* delete_wordpress_site), the site materializer and the lifecycle         *)
(* dispatcher (create / enable / disable / delete).                        *)
(*                                                                         *)
(* Text is a sequence of symbols.  The host file is such a sequence; the   *)
(* symbol LOOPBACK stands for the ten characters "127.0.0.1 " and NL for   *)
(* the newline.  A word of argv is a sequence of symbols too, the three    *)
(* subcommands being one-symbol words.                                     *)
(*                                                                         *)
(* One tool invocation is one process p: Invoke starts it with an argv,    *)
(* and it then runs the steps of main until it exits.  Every blocking      *)
(* external interaction (a host-file open, an orchestrator command, the    *)
(* rmtree) ends a step, so that the order of the steps and the             *)
(* interleaving of two invocations are visible.                            *)
(***************************************************************************)
EXTENDS Naturals, Sequences, FiniteSets

VARIABLES
    hosts,   \* the content of /etc/hosts
    fs,      \* the directory wordpress-docker of the invoking directory
    stack,   \* the orchestrator's containers for that directory
    proc,    \* per invocation: position, argv, cwd, exit status, ...
    hosts0   \* the content of /etc/hosts before the first invocation

vars == <<hosts, fs, stack, proc, hosts0>>

----------------------------------------------------------------------------
(* Bounds and input sets *)

MaxHostsLen == 8    \* no create is started on a host file longer than this
MaxRuns == 1        \* invocations per process when they run concurrently
MaxFileLen == 4     \* length of the host files the pure host functions get

Procs == {1, 2}

LOOPBACK == "127.0.0.1 "
NL == "\n"
Alphabet == {LOOPBACK, "a", "b", NL}

Sites == {<<"a">>, <<"a", "b">>, <<"b">>}
Subcommands == {<<"enable">>, <<"disable">>, <<"delete">>}
Words == Subcommands \cup {<<"bogus">>}

\* sys.argv[1:]
Argvs ==
    {<<>>} \cup {<<s>> : s \in Sites}
        \cup {<<s, w>> : s \in Sites, w \in Words}
        \cup {<<s, w, <<"a">>>> : s \in Sites, w \in Words}

----------------------------------------------------------------------------
(* Text *)

StartsWith(s, prefix) ==
    Len(prefix) <= Len(s) /\ SubSeq(s, 1, Len(prefix)) = prefix

\* file.readlines(): the lines of a text, each with its newline; the last
\* line has none when the text does not end with one.
RECURSIVE ReadLines(_)
ReadLines(text) ==
    IF text = <<>> THEN <<>>
    ELSE LET ends == {i \in 1..Len(text) : text[i] = NL}
             cut == IF ends = {} THEN Len(text)
                    ELSE CHOOSE i \in ends : \A j \in ends : i <= j
         IN <<SubSeq(text, 1, cut)>>
                \o ReadLines(SubSeq(text, cut + 1, Len(text)))

\* successive file.write(line) calls
RECURSIVE WriteLines(_)
WriteLines(ls) ==
    IF ls = <<>> THEN <<>> ELSE Head(ls) \o WriteLines(Tail(ls))

\* f"127.0.0.1 {site_name}\n"
HostsLine(site_name) == <<LOOPBACK>> \o site_name \o <<NL>>

\* f"127.0.0.1 {site_name}"
HostsPrefix(site_name) == <<LOOPBACK>> \o site_name

\* open("/etc/hosts", "a").write(...)
AppendEntry(text, site_name) == text \o HostsLine(site_name)

\* a filter that drops every loopback entry, whatever its name
KeepLine_AnyName(line, site_name) == ~StartsWith(line, <<LOOPBACK>>)

\* if not line.startswith(f"127.0.0.1 {site_name}")
KeepLine(line, site_name) == ~StartsWith(line, HostsPrefix(site_name))

\* the lines delete writes back
KeptLines(ls, site_name) == SelectSeq(ls, LAMBDA l : KeepLine(l, site_name))

RemoveEntry(ls, site_name) == WriteLines(KeptLines(ls, site_name))

----------------------------------------------------------------------------
(* The site root *)

Paths == {"nginx/default.conf", "public/index.php", "docker-compose.yml"}

\* the three static texts create writes
FixedContent ==
    [f \in Paths |->
        IF f = "nginx/default.conf" THEN "nginx_config_content"
        ELSE IF f = "public/index.php" THEN "<?php phpinfo();"
        ELSE "docker_compose_content"]

AbsentRoot == [exists |-> FALSE, files |-> [f \in Paths |-> "absent"]]
EmptyRoot == [exists |-> TRUE, files |-> [f \in Paths |-> "absent"]]
CustomRoot == [exists |-> TRUE, files |-> [f \in Paths |-> "customised"]]
MaterializedRoot == [exists |-> TRUE, files |-> FixedContent]

----------------------------------------------------------------------------
(* Processes *)

IdleProc ==
    [pc |-> "idle", argv |-> <<>>, cwd |-> "base", status |-> 0,
     fault |-> "none", op |-> "none", lines |-> <<>>, trace |-> <<>>,
     pre |-> [hosts |-> <<>>, fs |-> AbsentRoot, stack |-> "none"],
     runs |-> 0]

site_name(p) == proc[p].argv[1]

Running(p) == proc[p].pc \notin {"idle", "exit"}

\* sys.exit(code), the end of main, or an exception nothing catches
Exit(r, code, how) == [r EXCEPT !.pc = "exit", !.status = code, !.fault = how]

Log(r, event) == [r EXCEPT !.trace = Append(@, event)]

----------------------------------------------------------------------------
(* Initial states *)

\* host files the tool may find: empty, a foreign line, a last line without
\* its newline, an entry left by an earlier run
InitHosts == {<<>>, <<"b", NL>>, <<"b">>, HostsLine(<<"a", "b">>)}

InitRoots == {AbsentRoot, EmptyRoot, CustomRoot}

Init ==
    /\ hosts \in InitHosts
    /\ hosts0 = hosts
    /\ fs \in InitRoots
    /\ stack = "none"
    /\ proc = [p \in Procs |-> IdleProc]

----------------------------------------------------------------------------
(* Process start: python create_wordpress_site.py args, in the directory    *)
(* that holds (or will hold) wordpress-docker.                             *)

Invoke(p, args, counted) ==
    /\ ~Running(p)
    /\ counted => proc[p].runs < MaxRuns
    /\ Len(args) = 1 => Len(hosts) + Len(HostsLine(args[1])) <= MaxHostsLen
    /\ proc' = [proc EXCEPT ![p] =
                    [IdleProc EXCEPT
                        !.pc = "main",
                        !.argv = args,
                        !.pre = [hosts |-> hosts, fs |-> fs, stack |-> stack],
                        !.runs = IF counted THEN proc[p].runs + 1 ELSE 0]]
    /\ UNCHANGED <<hosts, fs, stack, hosts0>>

----------------------------------------------------------------------------
(* main: the preflight check and the dispatch on sys.argv *)

Dispatch(r) ==
    IF Len(r.argv) < 1 THEN Exit(r, 1, "sys_exit")
    ELSE IF Len(r.argv) = 1
        THEN [r EXCEPT !.pc = "modify_hosts_entry", !.op = "create"]
    ELSE IF r.argv[2] = <<"enable">>
        THEN [r EXCEPT !.pc = "enable_wordpress_site", !.op = "enable"]
    ELSE IF r.argv[2] = <<"disable">>
        THEN [r EXCEPT !.pc = "disable_wordpress_site", !.op = "disable"]
    ELSE IF r.argv[2] = <<"delete">>
        THEN [r EXCEPT !.pc = "delete_wordpress_site", !.op = "delete"]
    ELSE Exit(r, 1, "sys_exit")

Main(p) ==
    /\ proc[p].pc = "main"
    /\ \E check_installed \in BOOLEAN :
        proc' = [proc EXCEPT ![p] =
                    IF ~check_installed THEN Exit(@, 1, "sys_exit")
                    ELSE Dispatch(@)]
    /\ UNCHANGED <<hosts, fs, stack, hosts0>>

----------------------------------------------------------------------------
(* create *)

ModifyHostsEntry(p) ==
    /\ proc[p].pc = "modify_hosts_entry"
    /\ hosts' = AppendEntry(hosts, site_name(p))
    /\ proc' = [proc EXCEPT ![p] =
                    Log([@ EXCEPT !.pc = "create_wordpress_site"],
                        "hosts_append")]
    /\ UNCHANGED <<fs, stack, hosts0>>

\* artifacts written only where none is there yet
WriteArtifacts_KeepExisting(root) ==
    [exists |-> TRUE,
     files |-> [f \in Paths |->
                    IF root.files[f] = "absent" THEN FixedContent[f]
                    ELSE root.files[f]]]

\* makedirs if absent, then open(path, "w").write(text) for each artifact
WriteArtifacts(root) == [exists |-> TRUE, files |-> FixedContent]

CreateFiles(p) ==
    /\ proc[p].pc = "create_wordpress_site"
    /\ fs' = WriteArtifacts(fs)
    /\ proc' = [proc EXCEPT ![p] =
                    Log([@ EXCEPT !.pc = "docker_compose_up",
                                  !.cwd = "wordpress-docker"],
                        "write_artifacts")]
    /\ UNCHANGED <<hosts, stack, hosts0>>

CreateUp(p) ==
    /\ proc[p].pc = "docker_compose_up"
    /\ \E ok \in BOOLEAN :
        /\ stack' = IF ok THEN "running" ELSE stack
        /\ proc' = [proc EXCEPT ![p] =
                        IF ok THEN Exit(Log(@, "up -d"), 0, "none")
                        ELSE Exit(Log(@, "up -d"), 1, "sys_exit")]
    /\ UNCHANGED <<hosts, fs, hosts0>>

----------------------------------------------------------------------------
(* enable, disable *)

\* try: chdir; docker-compose verb; chdir("..")
\* except CalledProcessError: sys.exit(1)
StartStop(p, verb, after) ==
    IF ~fs.exists
    THEN /\ proc' = [proc EXCEPT ![p] = Exit(@, 1, "traceback")]
         /\ UNCHANGED stack
    ELSE \E ok \in BOOLEAN :
        /\ stack' = IF ok THEN after ELSE stack
        /\ proc' = [proc EXCEPT ![p] =
                        IF ok
                        THEN Exit(Log([@ EXCEPT !.cwd = "base"], verb),
                                  0, "none")
                        ELSE Exit(Log([@ EXCEPT !.cwd = "wordpress-docker"],
                                      verb),
                                  1, "sys_exit")]

EnableSite(p) ==
    /\ proc[p].pc = "enable_wordpress_site"
    /\ StartStop(p, "start", "running")
    /\ UNCHANGED <<hosts, fs, hosts0>>

DisableSite(p) ==
    /\ proc[p].pc = "disable_wordpress_site"
    /\ StartStop(p, "stop", "stopped")
    /\ UNCHANGED <<hosts, fs, hosts0>>

----------------------------------------------------------------------------
(* delete *)

\* a delete that takes every site root to exist
SiteRootExists_Always(root) == TRUE

\* os.path.exists("wordpress-docker")
SiteRootExists(root) == root.exists

\* subprocess.run without check=True: the exit status is ignored
TearDown_Unchecked(r, ok) ==
    Log([r EXCEPT !.pc = "hosts_read", !.cwd = "base"], "down -v")

\* chdir; subprocess.run([... "down", "-v"], check=True); chdir("..")
TearDown(r, ok) ==
    IF ok
    THEN Log([r EXCEPT !.pc = "hosts_read", !.cwd = "base"], "down -v")
    ELSE Exit(Log([r EXCEPT !.cwd = "wordpress-docker"], "down -v"),
              1, "traceback")

DeleteDown(p) ==
    /\ proc[p].pc = "delete_wordpress_site"
    /\ IF ~SiteRootExists(fs)
       THEN /\ proc' = [proc EXCEPT ![p] = Exit(@, 0, "none")]
            /\ UNCHANGED stack
       ELSE \E ok \in BOOLEAN :
            /\ stack' = IF ok THEN "none" ELSE stack
            /\ proc' = [proc EXCEPT ![p] = TearDown(@, ok)]
    /\ UNCHANGED <<hosts, fs, hosts0>>

DeleteRead(p) ==
    /\ proc[p].pc = "hosts_read"
    /\ proc' = [proc EXCEPT ![p] =
                    [@ EXCEPT !.pc = "hosts_write",
                              !.lines = ReadLines(hosts)]]
    /\ UNCHANGED <<hosts, fs, stack, hosts0>>

\* a rewrite that filters the file as it is now, not as it was read
Rewrite_Reread(current, ls, site) == RemoveEntry(ReadLines(current), site)

\* what the second open of /etc/hosts leaves in the file
Rewrite(current, ls, site) == RemoveEntry(ls, site)

DeleteWrite(p) ==
    /\ proc[p].pc = "hosts_write"
    /\ hosts' = Rewrite(hosts, proc[p].lines, site_name(p))
    /\ proc' = [proc EXCEPT ![p] =
                    Log([@ EXCEPT !.pc = "rmtree"], "hosts_rewrite")]
    /\ UNCHANGED <<fs, stack, hosts0>>

DeleteRmtree(p) ==
    /\ proc[p].pc = "rmtree"
    /\ fs' = AbsentRoot
    /\ proc' = [proc EXCEPT ![p] =
                    IF fs.exists THEN Exit(Log(@, "rmtree"), 0, "none")
                    ELSE Exit(@, 1, "traceback")]
    /\ UNCHANGED <<hosts, stack, hosts0>>

----------------------------------------------------------------------------
(* Specifications *)

Step(p) ==
    \/ Main(p)
    \/ ModifyHostsEntry(p)
    \/ CreateFiles(p)
    \/ CreateUp(p)
    \/ EnableSite(p)
    \/ DisableSite(p)
    \/ DeleteDown(p)
    \/ DeleteRead(p)
    \/ DeleteWrite(p)
    \/ DeleteRmtree(p)

\* one invocation after the other
Next ==
    \/ \E args \in Argvs : Invoke(1, args, FALSE)
    \/ Step(1)

Spec == Init /\ [][Next]_vars

\* two terminals, each running the tool MaxRuns times, on the sites a and b
ConcArgvs ==
    {args \in Argvs :
        /\ Len(args) \in {1, 2}
        /\ args[1] \in {<<"a">>, <<"b">>}
        /\ Len(args) = 2 => args[2] \in Subcommands}

InitConc ==
    /\ hosts \in {<<>>, HostsLine(<<"a">>)}
    /\ hosts0 = hosts
    /\ fs \in {AbsentRoot, MaterializedRoot}
    /\ stack = IF fs.exists THEN "running" ELSE "none"
    /\ proc = [p \in Procs |-> IdleProc]

NextConc ==
    \E p \in Procs :
        \/ \E args \in ConcArgvs : Invoke(p, args, TRUE)
        \/ Step(p)

SpecConc == InitConc /\ [][NextConc]_vars

\* add-host(s) by process 1, then remove-host(s) by process 2, on every
\* host file of at most MaxFileLen symbols
Texts(n) == UNION {[1..k -> Alphabet] : k \in 0..n}

InitHostsOnly ==
    /\ hosts \in Texts(MaxFileLen)
    /\ hosts0 = hosts
    /\ fs = MaterializedRoot
    /\ stack = "none"
    /\ \E s \in Sites :
        proc = [p \in Procs |->
                    [IdleProc EXCEPT
                        !.argv = <<s>>,
                        !.pc = IF p = 1 THEN "modify_hosts_entry"
                               ELSE "hosts_read"]]

NextHostsOnly ==
    \/ ModifyHostsEntry(1)
    \/ proc[1].pc = "create_wordpress_site" /\ DeleteRead(2)
    \/ DeleteWrite(2)

SpecHostsOnly == InitHostsOnly /\ [][NextHostsOnly]_vars

----------------------------------------------------------------------------
(* Vocabulary of the properties *)

Done(p) == proc[p].pc = "exit"

Range(seq) == {seq[i] : i \in 1..Len(seq)}

Occurrences(ls, line) == Cardinality({i \in 1..Len(ls) : ls[i] = line})

OtherLines(text, site) ==
    SelectSeq(ReadLines(text), LAMBDA l : l # HostsLine(site))

Operations == {"create", "enable", "disable", "delete"}

DeleteSteps == <<"down -v", "hosts_rewrite", "rmtree">>

CreateSteps == <<"hosts_append", "write_artifacts", "up -d">>

\* exactly one argument, or two whose second is a subcommand
Accepted(argv) ==
    Len(argv) = 1 \/ (Len(argv) = 2 /\ argv[2] \in Subcommands)

Untouched(p) ==
    /\ hosts = proc[p].pre.hosts
    /\ fs = proc[p].pre.fs
    /\ stack = proc[p].pre.stack

----------------------------------------------------------------------------
(* C1: every operation ends with the working directory it began with, on   *)
(* every exit path.                                                        *)
C1_CwdRestored ==
    \A p \in Procs :
        Done(p) /\ proc[p].op \in Operations => proc[p].cwd = "base"

(* C2: from a host file without an entry for s, no sequence of invocations *)
(* leaves more than one line 127.0.0.1 s in the host file.                 *)
C2_AtMostOneEntry ==
    \A s \in Sites :
        Occurrences(ReadLines(hosts0), HostsLine(s)) = 0 /\ ~Running(1)
            => Occurrences(ReadLines(hosts), HostsLine(s)) <= 1

(* C3: adding the entry for s and then removing it leaves every line other *)
(* than the entry itself in place, in order and unchanged.                 *)
C3_OtherLinesKept ==
    proc[2].pc = "rmtree"
        => OtherLines(hosts, site_name(2)) = OtherLines(hosts0, site_name(2))

(* C4: a delete on an existing site root tears the stack down, then        *)
(* rewrites the host file, then removes the root: nothing is changed       *)
(* before the tear-down has succeeded, a failed tear-down leaves host file *)
(* and root as they were, and a successful delete leaves no root and no    *)
(* host line that starts with 127.0.0.1 s.                                 *)
C4_DeleteOrder ==
    \A p \in Procs :
        LET r == proc[p] IN
        r.op = "delete" =>
            /\ StartsWith(DeleteSteps, r.trace)
            /\ hosts # r.pre.hosts => StartsWith(r.trace, SubSeq(DeleteSteps, 1, 2))
            /\ fs # r.pre.fs => r.trace = DeleteSteps
            /\ Len(r.trace) >= 2 => stack = "none" /\ r.fault = "none"
            /\ Done(p) /\ r.status # 0 => hosts = r.pre.hosts /\ fs = r.pre.fs
            /\ Done(p) /\ r.status = 0 /\ r.pre.fs.exists =>
                /\ r.trace = DeleteSteps
                /\ ~fs.exists
                /\ \A l \in Range(ReadLines(hosts)) :
                        ~StartsWith(l, HostsPrefix(site_name(p)))

C4_Witness ==
    /\ Done(1) /\ proc[1].op = "delete" /\ proc[1].status = 0
    /\ proc[1].pre.fs.exists
    /\ proc[1].pre.stack = "running"
    /\ hosts # proc[1].pre.hosts

(* C5: delete on a missing site root is a no-op that succeeds: no          *)
(* orchestrator command, host file, site root, stack and working directory *)
(* as before, exit status 0.                                               *)
C5_DeleteMissingNoOp ==
    \A p \in Procs :
        Done(p) /\ proc[p].op = "delete" /\ ~proc[p].pre.fs.exists =>
            /\ proc[p].status = 0
            /\ proc[p].fault = "none"
            /\ proc[p].trace = <<>>
            /\ proc[p].cwd = "base"
            /\ Untouched(p)

C5_Witness ==
    /\ Done(1) /\ proc[1].op = "delete" /\ ~proc[1].pre.fs.exists
    /\ proc[1].status = 0
    /\ hosts # <<>>

(* C6: enable or disable on a missing site root exits non-zero through the *)
(* tool's own diagnostic (sys.exit), without an orchestrator command and   *)
(* without an unhandled exception.                                         *)
C6_EnableMissingHandled ==
    \A p \in Procs :
        Done(p) /\ proc[p].op \in {"enable", "disable"}
                /\ ~proc[p].pre.fs.exists =>
            /\ proc[p].status # 0
            /\ proc[p].fault = "sys_exit"
            /\ proc[p].trace = <<>>

(* C7: an invocation that is neither <site> nor <site> enable|disable|     *)
(* delete exits non-zero and writes no host file, changes no file and runs *)
(* no orchestrator lifecycle command.                                      *)
C7_RouterRejects ==
    \A p \in Procs :
        Done(p) /\ ~Accepted(proc[p].argv) =>
            /\ proc[p].status # 0
            /\ Range(proc[p].trace) = {}
            /\ Untouched(p)

(* C8: a create that ends without error leaves the three artifacts with    *)
(* their fixed content, whatever the site root held before, after having   *)
(* run the bring-up in detached mode; a create on a root an earlier create *)
(* left changes none of the three.                                         *)
C8_CreateMaterializes ==
    \A p \in Procs :
        Done(p) /\ proc[p].op = "create" /\ proc[p].status = 0 =>
            /\ fs.exists
            /\ \A f \in Paths : fs.files[f] = FixedContent[f]
            /\ proc[p].trace = CreateSteps
            /\ proc[p].fault = "none"
            /\ proc[p].pre.fs = MaterializedRoot => fs = proc[p].pre.fs

C8_Witness ==
    /\ Done(1) /\ proc[1].op = "create" /\ proc[1].status = 0
    /\ proc[1].pre.fs = MaterializedRoot
    /\ proc[1].pre.stack = "running"
    /\ fs = MaterializedRoot

(* C9: when a delete rewrites the host file, an entry that a concurrent    *)
(* create appended after the delete had read the file is lost.             *)
C9_LostUpdate ==
    [][\A q \in Procs : \A p \in Procs \ {q} :
            /\ proc[q].pc = "hosts_write" /\ proc'[q].pc = "rmtree"
            /\ proc[p].op = "create"
            /\ "hosts_append" \in Range(proc[p].trace)
            /\ HostsLine(site_name(p)) \notin Range(proc[q].lines)
            => HostsLine(site_name(p)) \notin Range(ReadLines(hosts'))]_vars

\* create b reported success, the only other invocation was delete a, and
\* the entry of b is gone
C9_Witness ==
    \E p \in Procs : \E q \in Procs \ {p} :
        /\ Done(p) /\ proc[p].op = "create" /\ proc[p].status = 0
        /\ Done(q) /\ proc[q].op = "delete" /\ proc[q].status = 0
        /\ "hosts_rewrite" \in Range(proc[q].trace)
        /\ ~StartsWith(site_name(p), site_name(q))
        /\ HostsLine(site_name(p)) \notin Range(ReadLines(hosts))
        /\ HostsLine(site_name(p)) \notin Range(proc[q].lines)

(* C10: a successful delete b removes the site root and the stack although *)
(* every entry 127.0.0.1 a with a not starting with b stays in the host    *)
(* file: host entries outlive the site root.                               *)
C10_EntryOutlivesRoot ==
    \A p \in Procs :
        Done(p) /\ proc[p].op = "delete" /\ proc[p].status = 0
                /\ proc[p].pre.fs.exists =>
            /\ ~fs.exists
            /\ stack = "none"
            /\ \A a \in Sites :
                /\ ~StartsWith(a, site_name(p))
                /\ HostsLine(a) \in Range(ReadLines(proc[p].pre.hosts))
                => HostsLine(a) \in Range(ReadLines(hosts))

\* the entry of a was written by a create (the first host file had none),
\* the root was materialized and is gone, the entry is still there
C10_Witness ==
    \E a \in Sites :
        /\ Done(1) /\ proc[1].op = "delete" /\ proc[1].status = 0
        /\ proc[1].pre.fs = MaterializedRoot
        /\ proc[1].pre.stack = "running"
        /\ site_name(1) # a /\ ~StartsWith(a, site_name(1))
        /\ HostsLine(a) \notin Range(ReadLines(hosts0))
        /\ HostsLine(a) \in Range(ReadLines(hosts))
        /\ ~fs.exists /\ stack = "none"

====
